---- MODULE Spec2Model ----
(***************************************************************************)
(* A model of the ators symbolicator: the address translator               *)
(* (compute_addrs, ators/src/main.rs), the dispatcher (symbolicate,        *)
(* ators/src/main.rs) and the resolver (atos_dwarf, atos_obj and the       *)
(* DwarfExt helpers, atorsl/src/symbolicator.rs).                          *)
(*                                                                         *)
(* An Addr is a u64.  It is kept at its full width as four 16-bit limbs,   *)
(* most significant first, so that wrapping, carries and the hexadecimal   *)
(* form are those of the 64-bit value.                                     *)
(***************************************************************************)
EXTENDS Integers, Sequences, FiniteSets, TLC

VARIABLES
    world,   \* the inputs of symbolicate: dwarf, obj (symbol map), ctx
    addrs,   \* the translated addresses handed to symbolicate
    pc,      \* position of the running function
    idx,     \* number of addresses the iterator has consumed
    cur,     \* the closure's `symbols` for the address in hand
    out,     \* the Vec<String> under collection
    log,     \* per address: what ran (history of the calls made)
    tin,     \* the inputs of compute_addrs
    toff,    \* compute_addrs: offset_addr
    tout,    \* compute_addrs: the Vec<Addr> under collection
    call,    \* a helper of the resolver called on its own: the arguments
    ret      \* the helper's locals while it runs, its result once it returned

vars == <<world, addrs, pc, idx, cur, out, log, tin, toff, tout, call, ret>>

\* Option<T>: None is the empty tuple, Some(x) the tuple of x alone
None == <<>>
Some(x) == <<x>>
Unwrap(o) == o[1]

\* F applied to the value of e, which is computed once (the state of a loop
\* is handed from one iteration to the next as a value)
WithValue(e, F(_)) == CHOOSE r \in {F(v) : v \in {e}} : TRUE

\* ------------------------------------------------------------------ bounds

\* Longest list of input addresses.
MaxAddrs == 2

\* --------------------------------------------------------------------- u64

LimbBase == 65536
HalfLimb == 32768

U64Zero == <<0, 0, 0, 0>>
U64Max  == <<LimbBase - 1, LimbBase - 1, LimbBase - 1, LimbBase - 1>>
\* 2^63: the bit pattern of i64::MIN
I64MinBits == <<HalfLimb, 0, 0, 0>>

\* a small value as a u64
Small(n) == <<0, 0, 0, n>>

\* self.0 < other.0 (derive(PartialOrd, Ord) on Addr(u64))
U64Lt(a, b) ==
    \/ a[1] < b[1]
    \/ a[1] = b[1] /\ a[2] < b[2]
    \/ a[1] = b[1] /\ a[2] = b[2] /\ a[3] < b[3]
    \/ a[1] = b[1] /\ a[2] = b[2] /\ a[3] = b[3] /\ a[4] < b[4]

U64Le(a, b) == a = b \/ U64Lt(a, b)

\* u64::overflowing_add: the wrapped sum and the carry out of bit 63
OverflowingAdd(a, b) ==
    LET s4 == a[4] + b[4]
        s3 == a[3] + b[3] + (s4 \div LimbBase)
        s2 == a[2] + b[2] + (s3 \div LimbBase)
        s1 == a[1] + b[1] + (s2 \div LimbBase)
    IN  [val   |-> <<s1 % LimbBase, s2 % LimbBase, s3 % LimbBase, s4 % LimbBase>>,
         carry |-> s1 >= LimbBase]

\* u64::overflowing_sub: the wrapped difference and the borrow
OverflowingSub(a, b) ==
    LET d4 == a[4] - b[4]
        b4 == IF d4 < 0 THEN 1 ELSE 0
        d3 == a[3] - b[3] - b4
        b3 == IF d3 < 0 THEN 1 ELSE 0
        d2 == a[2] - b[2] - b3
        b2 == IF d2 < 0 THEN 1 ELSE 0
        d1 == a[1] - b[1] - b2
    IN  [val   |-> <<d1 % LimbBase, d2 % LimbBase, d3 % LimbBase, d4 % LimbBase>>,
         carry |-> d1 < 0]

\* u64::checked_sub
checked_sub(a, b) ==
    LET r == OverflowingSub(a, b) IN IF r.carry THEN None ELSE Some(r.val)

\* `x as i64`: the same 64 bits, read as two's complement
IsNegativeI64(x) == x[1] >= HalfLimb

\* i64 negation, wrapped: 0 - x on the bits
WrappingNeg(x) == OverflowingSub(U64Zero, x).val

\* u64::checked_add_signed(self, rhs: i64): overflowing_add(rhs as u64), and
\* the overflow flag is carry XOR (rhs < 0)
checked_add_signed(a, rhs) ==
    LET r == OverflowingAdd(a, rhs)
    IN  IF r.carry # IsNegativeI64(rhs) THEN None ELSE Some(r.val)

\* ------------------------------------------------------------ Addr display

HexDigits == <<"0", "1", "2", "3", "4", "5", "6", "7",
               "8", "9", "a", "b", "c", "d", "e", "f">>

HexDigit(n) == HexDigits[n + 1]

Hex4(limb) ==
    << HexDigit(limb \div 4096), HexDigit((limb \div 256) % 16),
       HexDigit((limb \div 16) % 16), HexDigit(limb % 16) >>

\* impl fmt::Display for Addr: format_args!("{:#018x}", self.0)
AddrToString(a) == <<"0", "x">> \o Hex4(a[1]) \o Hex4(a[2]) \o Hex4(a[3]) \o Hex4(a[4])

\* ------------------------------------------------------------------ text

\* A String is the sequence of its pieces; to_string() of a number is its
\* decimal digits.
RECURSIVE DecDigits(_)
DecDigits(n) ==
    IF n < 10 THEN <<HexDigit(n)>> ELSE DecDigits(n \div 10) \o <<HexDigit(n % 10)>>

\* `x as u16`
U16Range == 65536
AsU16(n) == n % U16Range

\* ------------------------------------------------------------------ paths

\* A path is the sequence of its components; an absolute path starts at "/".
IsAbsolute(p) == p # <<>> /\ p[1] = "/"

\* PathBuf::join: an absolute argument replaces the path
PathJoin(p, q) == IF IsAbsolute(q) THEN q ELSE p \o q

\* Path::to_string_lossy, the components with "/" between them
RECURSIVE PathToString(_)
PathToString(p) ==
    IF p = <<>> THEN <<>>
    ELSE IF Len(p) = 1 THEN <<p[1]>>
    ELSE IF p[1] = "/" THEN <<"/">> \o PathToString(Tail(p))
    ELSE <<p[1], "/">> \o PathToString(Tail(p))

\* LossyFileName::lossy_file_name: the last component, "" when there is none
lossy_file_name(p) ==
    IF p = <<>> \/ p = <<"/">> THEN <<>> ELSE <<p[Len(p)]>>

\* ----------------------------------------------------------------- results

\* Result<T, Error>.  An error carries its kind and the address it was built
\* with.
Ok(v) == [ok |-> TRUE, val |-> v, err |-> "", addr |-> U64Zero]
Err(kind, a) == [ok |-> FALSE, val |-> <<>>, err |-> kind, addr |-> a]

\* Symbol.loc: Either<Option<SourceLoc>, Addr>
SourceLoc(file, line, col) ==
    [kind |-> "source", file |-> file, line |-> line, col |-> col, offset |-> U64Zero]
NoSourceLoc ==
    [kind |-> "unknown", file |-> <<>>, line |-> 0, col |-> 0, offset |-> U64Zero]
ObjectOffset(off) ==
    [kind |-> "offset", file |-> <<>>, line |-> 0, col |-> 0, offset |-> off]

Symbol(a, name, loc) == [addr |-> a, name |-> name, loc |-> loc]

\* ------------------------------------------------------------------ DWARF

\* An attribute value: its form and its payload.
AttrAddr(a)        == [form |-> "Addr", u64 |-> a, n |-> 0, str |-> ""]
AttrUdata(n)       == [form |-> "Udata", u64 |-> U64Zero, n |-> n, str |-> ""]
AttrString(str)    == [form |-> "String", u64 |-> U64Zero, n |-> 0, str |-> str]
AttrUnitRef(k)     == [form |-> "UnitRef", u64 |-> U64Zero, n |-> k, str |-> ""]
AttrDebugInfoRef(g) == [form |-> "DebugInfoRef", u64 |-> U64Zero, n |-> g, str |-> ""]
AttrFileIndex(i)   == [form |-> "FileIndex", u64 |-> U64Zero, n |-> i, str |-> ""]
AttrFlag(b)        == [form |-> "Flag", u64 |-> U64Zero, n |-> IF b THEN 1 ELSE 0, str |-> ""]
AttrRangeListsRef(r) == [form |-> "RangeListsRef", u64 |-> U64Zero, n |-> r, str |-> ""]

\* A DIE: its tag, its depth in the tree and its attributes (a function from
\* the names of the attributes it carries).  A unit lists its DIEs in
\* depth-first order.
Die(tag, depth, attrs) == [tag |-> tag, depth |-> depth, attrs |-> attrs]

\* entry.attr_value(name): Option<AttrValue>
attr_value(entry, name) ==
    IF name \in DOMAIN entry.attrs THEN Some(entry.attrs[name]) ELSE None

\* the first attribute of `names` the entry carries:
\* names.into_iter().find_map(|n| entry.attr_value(n).ok()?)
RECURSIVE find_attr(_, _)
find_attr(entry, names) ==
    IF names = <<>> THEN None
    ELSE IF attr_value(entry, names[1]) # None THEN attr_value(entry, names[1])
    ELSE find_attr(entry, Tail(names))

\* entry.has_children()
has_children(unit, i) ==
    i < Len(unit.dies) /\ unit.dies[i + 1].depth > unit.dies[i].depth

\* entries.next_dfs() with the cursor on DIE i (0 before the first call):
\* the step in depth to the next DIE in depth-first order
next_dfs_step(unit, i) ==
    IF i = 0 THEN 0 ELSE unit.dies[i + 1].depth - unit.dies[i].depth

\* attr_lossy_string: the string of a string-valued attribute, an error of
\* the DWARF reader for any other form
attr_lossy_string(attr) ==
    IF attr.form = "String" THEN Ok(<<attr.str>>) ELSE Err("Gimli", U64Zero)

\* unit.entry(offset): the DIE at a unit-local offset
unit_entry_valid(unit, k) == k \in 1..Len(unit.dies)

\* --- unit locator

\* the closure `contains` of debug_info_offset on one arange entry: whether
\* [address, address + length) holds addr, or InvalidAddressRange when the end
\* overflows
arange_contains(arange, addr) ==
    LET end == OverflowingAdd(arange.address, arange.length)
    IN  IF end.carry THEN "error"
        ELSE IF U64Le(arange.address, addr) /\ U64Lt(addr, end.val) THEN "true"
        ELSE "false"

\* header.entries().any(contains(addr)): stops at the first hit or error
RECURSIVE aranges_any(_, _)
aranges_any(entries, addr) ==
    IF entries = <<>> THEN "false"
    ELSE LET c == arange_contains(entries[1], addr)
         IN  IF c = "false" THEN aranges_any(Tail(entries), addr) ELSE c

\* debug_info_offset: the unit offset of the first arange header that holds
\* addr
RECURSIVE debug_info_offset_from(_, _, _)
debug_info_offset_from(headers, addr, h) ==
    IF h > Len(headers) THEN Err("AddrDebugInfoOffsetMissing", addr)
    ELSE LET c == aranges_any(headers[h].entries, addr)
         IN  CASE c = "error" -> Err("Gimli", U64Zero)
               [] c = "true"  -> Ok(headers[h].debug_info_offset)
               [] c = "false" -> debug_info_offset_from(headers, addr, h + 1)

debug_info_offset(dwarf, addr) == debug_info_offset_from(dwarf.aranges, addr, 1)

\* unit_from_addr: the index of the unit whose header sits at the offset
unit_from_addr(dwarf, addr) ==
    LET off == debug_info_offset(dwarf, addr)
    IN  IF ~off.ok THEN off
        ELSE IF \E u \in 1..Len(dwarf.units) : dwarf.units[u].offset = off.val
        THEN Ok(CHOOSE u \in 1..Len(dwarf.units) : dwarf.units[u].offset = off.val)
        ELSE Err("Gimli", U64Zero)

\* unit_from_offset: the unit whose span [offset, next offset) holds a global
\* .debug_info offset, or the last unit when the offset lies beyond its header
RECURSIVE unit_from_offset_from(_, _, _, _)
unit_from_offset_from(dwarf, addr, g, u) ==
    IF u > Len(dwarf.units) THEN Err("AddrDebugInfoRefOffsetNofFound", addr)
    ELSE IF u < Len(dwarf.units)
            /\ dwarf.units[u].offset <= g /\ g < dwarf.units[u + 1].offset
    THEN Ok(u)
    ELSE IF u = Len(dwarf.units) /\ g > dwarf.units[u].offset THEN Ok(u)
    ELSE unit_from_offset_from(dwarf, addr, g, u + 1)

unit_from_offset(dwarf, addr, g) == unit_from_offset_from(dwarf, addr, g, 1)

\* UnitSectionOffset::to_unit_offset: the unit-local offset, when the global
\* one lies inside the unit
to_unit_offset(unit, g) ==
    IF unit.offset <= g /\ g < unit.offset + unit.length
    THEN Some(g - unit.offset) ELSE None

\* --- containment

\* entry_pc_contains: DW_AT_low_pc with DW_AT_high_pc, an address or a length
entry_pc_contains(entry, addr) ==
    LET low  == attr_value(entry, "DW_AT_low_pc")
        high == attr_value(entry, "DW_AT_high_pc")
    IN  IF low = None THEN None
        ELSE IF Unwrap(low).form # "Addr" THEN None
        ELSE IF high = None THEN None
        ELSE IF Unwrap(high).form \notin {"Addr", "Udata"} THEN None
        ELSE LET lo == Unwrap(low).u64
                 hi == IF Unwrap(high).form = "Addr" THEN Unwrap(high).u64
                       ELSE OverflowingAdd(lo, Small(Unwrap(high).n)).val
             IN  Some(U64Le(lo, addr) /\ U64Lt(addr, hi))

\* entry_ranges_contain: DW_AT_ranges, any range of the list
entry_ranges_contain(dwarf, entry, addr) ==
    LET r == attr_value(entry, "DW_AT_ranges")
    IN  IF r = None THEN None
        ELSE IF Unwrap(r).form # "RangeListsRef" THEN None
        ELSE IF Unwrap(r).n \notin DOMAIN dwarf.ranges THEN None
        ELSE LET rs == dwarf.ranges[Unwrap(r).n]
             IN  Some(\E k \in 1..Len(rs) :
                        U64Le(rs[k].begin, addr) /\ U64Lt(addr, rs[k].end))

\* entry_contains, asking the ranges as well when the pc pair says no
entry_contains_pc_or_ranges(dwarf, entry, addr) ==
    \/ entry_pc_contains(entry, addr) = Some(TRUE)
    \/ entry_ranges_contain(dwarf, entry, addr) = Some(TRUE)

\* entry_contains: the pc pair, or else the ranges, or else false
entry_contains(dwarf, entry, addr) ==
    LET pcs == entry_pc_contains(entry, addr)
        rgs == entry_ranges_contain(dwarf, entry, addr)
    IN  IF pcs # None THEN Unwrap(pcs)
        ELSE IF rgs # None THEN Unwrap(rgs)
        ELSE FALSE

\* --- names

\* demangler::demangle: the source-level name of a mangled one, the name
\* itself when it is not mangled
demangle(name) ==
    CASE name = <<"_ZN3fooE">> -> <<"foo">>
      [] name = <<"__Z3bazv">> -> <<"baz()">>
      [] OTHER -> name

\* what one activation of entry_symbol ends in: the value it returns, or the
\* DIE it calls itself on
Returns(result) == [done |-> TRUE, result |-> result, u |-> 0, e |-> 0]
Reenters(u, e) == [done |-> FALSE, result |-> <<>>, u |-> u, e |-> e]

\* entry_symbol, one activation: the first of DW_AT_linkage_name,
\* DW_AT_abstract_origin and DW_AT_name the DIE carries; a reference re-enters
\* on the DIE it names
entry_symbol_step(dwarf, addr, u, e) ==
    LET unit == dwarf.units[u]
        attr == find_attr(unit.dies[e],
                    <<"DW_AT_linkage_name", "DW_AT_abstract_origin", "DW_AT_name">>)
    IN  IF attr = None THEN Returns(Err("AddrSymbolMissing", addr))
        ELSE CASE Unwrap(attr).form = "UnitRef" ->
                    IF unit_entry_valid(unit, Unwrap(attr).n)
                    THEN Reenters(u, Unwrap(attr).n)
                    ELSE Returns(Err("Gimli", U64Zero))
               [] Unwrap(attr).form = "DebugInfoRef" ->
                    LET nu == unit_from_offset(dwarf, addr, Unwrap(attr).n)
                    IN  IF ~nu.ok THEN Returns(nu)
                        ELSE LET new_unit == dwarf.units[nu.val]
                                 off == to_unit_offset(new_unit, Unwrap(attr).n)
                             IN  IF off = None
                                 THEN Returns(Err("AddrDebugInfoRefOffsetOutOfBounds", addr))
                                 ELSE IF ~unit_entry_valid(new_unit, Unwrap(off))
                                 THEN Returns(Err("Gimli", U64Zero))
                                 ELSE Reenters(nu.val, Unwrap(off))
               [] OTHER -> Returns(attr_lossy_string(Unwrap(attr)))

\* entry_symbol: the activations, one inside the other, until one returns
RECURSIVE entry_symbol(_, _, _, _)
entry_symbol(dwarf, addr, u, e) ==
    LET Inner(s) ==
            IF s.done THEN s.result ELSE entry_symbol(dwarf, addr, s.u, s.e)
    IN  WithValue(entry_symbol_step(dwarf, addr, u, e), Inner)

\* --- the line program

\* header.file(index): the file entry, if the table has one at the index
header_file(lp, index) ==
    IF index \in 1..Len(lp.files) THEN Some(lp.files[index]) ELSE None

\* file.directory(header): directory 0 is the unit's compilation directory
file_directory(lp, unit, file) ==
    IF file.directory_index = 0 THEN
        IF unit.comp_dir = None THEN None ELSE Some(Unwrap(unit.comp_dir))
    ELSE IF file.directory_index \in 1..Len(lp.dirs)
    THEN Some(lp.dirs[file.directory_index])
    ELSE None

\* line_row_file: the directory of the row's file, unless its index is 0,
\* joined with the file's name
line_row_file(row, lp, unit) ==
    LET file == header_file(lp, row.file)
    IN  IF file = None THEN Err("AddrFileInfoMissing", row.address)
        ELSE LET dir == file_directory(lp, unit, Unwrap(file))
                 base == IF dir # None /\ Unwrap(file).directory_index # 0
                         THEN Unwrap(dir) ELSE <<>>
             IN  Ok(PathJoin(base, Unwrap(file).path_name))

\* the state of the loop of entry_debug_line: the next row, `file` and
\* `source_locs`
RowsState(k, file, source_locs) ==
    [k |-> k, file |-> file, source_locs |-> source_locs]

\* entry_debug_line, the loop: `file` is set by the first row at the address,
\* source_locs collects one SourceLoc per row at the address
RECURSIVE entry_debug_line_rows(_, _, _, _)
entry_debug_line_rows(addr, lp, unit, state) ==
    LET Iteration(s) ==
            IF s.k > Len(lp.rows)
            THEN IF s.source_locs = <<>> THEN Err("AddrLineInfoMissing", addr)
                 ELSE Ok(s.source_locs[Len(s.source_locs)])
            ELSE IF lp.rows[s.k].address # addr
            THEN entry_debug_line_rows(addr, lp, unit,
                                       RowsState(s.k + 1, s.file, s.source_locs))
            ELSE LET f == IF s.file = None THEN line_row_file(lp.rows[s.k], lp, unit)
                          ELSE Ok(Unwrap(s.file))
                 IN  IF ~f.ok THEN f
                     ELSE entry_debug_line_rows(addr, lp, unit,
                            RowsState(s.k + 1, Some(f.val),
                                Append(s.source_locs,
                                       SourceLoc(f.val, AsU16(lp.rows[s.k].line),
                                                 AsU16(lp.rows[s.k].column)))))
    IN  WithValue(state, Iteration)

entry_debug_line(addr, unit) ==
    entry_debug_line_rows(addr, Unwrap(unit.line_program), unit,
                          RowsState(1, None, <<>>))

\* --- the location of an inlined frame

\* AttributeValue::u16_value
u16_value(attr) ==
    IF attr.form = "Udata" /\ attr.n < U16Range THEN Some(attr.n) ELSE None

\* names.into_iter().find_map(|n| entry.attr_value(n).ok()??.u16_value())
RECURSIVE find_u16(_, _)
find_u16(entry, names) ==
    IF names = <<>> THEN None
    ELSE LET a == attr_value(entry, names[1])
         IN  IF a # None /\ u16_value(Unwrap(a)) # None THEN u16_value(Unwrap(a))
             ELSE find_u16(entry, Tail(names))

CompilerGenerated(path) == SourceLoc(PathJoin(path, <<"<compiler-generated>">>), 0, 0)

\* entry_source_loc: Option<SourceLoc> from the DIE's own file, line and
\* column attributes
entry_source_loc(entry, path, unit) ==
    LET f == find_attr(entry, <<"DW_AT_decl_file", "DW_AT_call_file">>)
    IN  IF f = None THEN Some(CompilerGenerated(path))
        ELSE IF Unwrap(f).form # "FileIndex" THEN Some(CompilerGenerated(path))
        ELSE IF unit.line_program = None THEN None
        ELSE LET lp == Unwrap(unit.line_program)
                 file == header_file(lp, Unwrap(f).n)
                 is_artificial ==
                    attr_value(entry, "DW_AT_artificial") = Some(AttrFlag(TRUE))
                 line == find_u16(entry, <<"DW_AT_decl_line", "DW_AT_call_line">>)
                 col == find_u16(entry, <<"DW_AT_decl_column", "DW_AT_call_column">>)
             IN  IF file = None THEN None
                 ELSE IF file_directory(lp, unit, Unwrap(file)) = None THEN None
                 ELSE IF ~is_artificial /\ line = None THEN None
                 ELSE Some(SourceLoc(
                        PathJoin(Unwrap(file_directory(lp, unit, Unwrap(file))),
                                 Unwrap(file).path_name),
                        IF is_artificial THEN 0 ELSE Unwrap(line),
                        IF is_artificial \/ col = None THEN 0 ELSE Unwrap(col)))

\* --- the resolver

\* atos_dwarf, lines 35-46: next_dfs from the cursor until a DW_TAG_subprogram
\* holds addr; 0 when the unit is exhausted
RECURSIVE find_subprogram(_, _, _, _)
find_subprogram(dwarf, unit, addr, cursor) ==
    LET Iteration(c) ==
            IF c >= Len(unit.dies) THEN 0
            ELSE IF unit.dies[c + 1].tag = "DW_TAG_subprogram"
                    /\ entry_contains(dwarf, unit.dies[c + 1], addr)
            THEN c + 1
            ELSE find_subprogram(dwarf, unit, addr, c + 1)
    IN  WithValue(cursor, Iteration)

\* insert_front, as symbols.push(symbol)
insert_back(symbols, symbol) == Append(symbols, symbol)

\* symbols.insert(0, symbol)
insert_front(symbols, symbol) == <<symbol>> \o symbols

\* frame_name_entry, naming the frame after `child`
frame_name_entry_child(parent, child) == child

\* atos_dwarf, line 71: the frame pushed when `child` matches takes its name
\* from `parent`, the enclosing function, and its location from `child`
frame_name_entry(parent, child) == parent

\* walk_is_over, never stopping before the end of the unit
walk_is_never_over(depth) == FALSE

\* atos_dwarf, line 59: the walk has left the subprogram
walk_is_over(depth) == depth <= 0

\* the state of the loop of atos_dwarf, lines 52-78: the cursor of `entries`,
\* `depth`, `parent` and `symbols`
WalkState(cursor, depth, parent, symbols) ==
    [cursor |-> cursor, depth |-> depth, parent |-> parent, symbols |-> symbols]

\* atos_dwarf, lines 52-78: the loop over the DIEs after the subprogram
RECURSIVE inline_walk(_, _, _, _, _)
inline_walk(dwarf, u, addr, comp_dir, state) ==
    LET unit == dwarf.units[u]
        Iteration(s) ==
            LET child == s.cursor + 1
                d == s.depth + next_dfs_step(unit, s.cursor)
            IN  IF s.cursor >= Len(unit.dies)
                THEN Ok([symbols |-> s.symbols, last_child |-> s.parent])
                ELSE IF walk_is_over(d)
                THEN Ok([symbols |-> s.symbols, last_child |-> s.parent])
                ELSE IF unit.dies[child].tag = "DW_TAG_inlined_subroutine"
                        /\ entry_contains(dwarf, unit.dies[child], addr)
                THEN LET name == entry_symbol(dwarf, addr, u,
                                                 frame_name_entry(s.parent, child))
                         loc == entry_source_loc(unit.dies[child], comp_dir, unit)
                     IN  IF ~name.ok THEN name
                         ELSE inline_walk(dwarf, u, addr, comp_dir,
                                WalkState(child, d, child,
                                    insert_front(s.symbols,
                                        Symbol(addr, demangle(name.val),
                                               IF loc = None THEN NoSourceLoc
                                               ELSE Unwrap(loc)))))
                ELSE inline_walk(dwarf, u, addr, comp_dir,
                                 WalkState(child, d, s.parent, s.symbols))
    IN  WithValue(state, Iteration)

\* atos_dwarf, lines 80-101: the frame of `entry`, located by the line program
line_frame(dwarf, u, addr, entry) ==
    LET name == entry_symbol(dwarf, addr, u, entry)
        loc == entry_debug_line(addr, dwarf.units[u])
    IN  IF ~name.ok THEN name
        ELSE IF ~loc.ok THEN loc
        ELSE Ok(Symbol(addr, demangle(name.val), loc.val))

atos_dwarf(dwarf, addr, include_inlined) ==
    LET ur == unit_from_addr(dwarf, addr)
    IN  IF ~ur.ok THEN ur
        ELSE LET u == ur.val
                 unit == dwarf.units[u]
                 subprogram == find_subprogram(dwarf, unit, addr, 0)
             IN  IF unit.comp_dir = None THEN Err("CompUnitDirMissing", addr)
                 ELSE IF unit.line_program = None
                 THEN Err("CompUnitLineProgramMissing", addr)
                 ELSE IF subprogram = 0 THEN Err("AddrNotFound", addr)
                 ELSE IF include_inlined /\ has_children(unit, subprogram)
                 THEN LET w == inline_walk(dwarf, u, addr, Unwrap(unit.comp_dir),
                                           WalkState(subprogram, 0, subprogram, <<>>))
                      IN  IF ~w.ok THEN w
                          ELSE LET first == line_frame(dwarf, u, addr, w.val.last_child)
                               IN  IF ~first.ok THEN first
                                   ELSE Ok(insert_front(w.val.symbols, first.val))
                 ELSE LET only == line_frame(dwarf, u, addr, subprogram)
                      IN  IF ~only.ok THEN only ELSE Ok(<<only.val>>)

\* symbol_map_get, taking the first entry at or below addr instead of the last
symbol_map_get_first(map, addr) ==
    LET below == {k \in 1..Len(map) : U64Le(map[k].address, addr)}
    IN  IF below = {} THEN None
        ELSE Some(map[CHOOSE k \in below : \A j \in below : k <= j])

\* obj.symbol_map().get(addr): the entry of the greatest address <= addr in
\* the map, which is sorted by address
symbol_map_get(map, addr) ==
    LET below == {k \in 1..Len(map) : U64Le(map[k].address, addr)}
    IN  IF below = {} THEN None
        ELSE Some(map[CHOOSE k \in below : \A j \in below : j <= k])

atos_obj(obj, addr) ==
    LET symbol == symbol_map_get(obj.symbol_map, addr)
    IN  IF symbol = None THEN Err("AddrNotFound", addr)
        ELSE Ok(<<Symbol(Unwrap(symbol).address, demangle(Unwrap(symbol).name),
                         ObjectOffset(OverflowingSub(addr, Unwrap(symbol).address).val))>>)

\* --- formatter

\* u64 to_string: the decimal digits
DivMod10(a) ==
    LET t1 == a[1]
        t2 == (t1 % 10) * LimbBase + a[2]
        t3 == (t2 % 10) * LimbBase + a[3]
        t4 == (t3 % 10) * LimbBase + a[4]
    IN  [q |-> <<t1 \div 10, t2 \div 10, t3 \div 10, t4 \div 10>>, r |-> t4 % 10]

RECURSIVE U64Digits(_)
U64Digits(a) ==
    IF a = U64Zero THEN <<>>
    ELSE U64Digits(DivMod10(a).q) \o <<HexDigit(DivMod10(a).r)>>

U64ToString(a) == IF a = U64Zero THEN <<"0">> ELSE U64Digits(a)

\* format(symbol, ctx)
format(symbol, ctx) ==
    CASE symbol.loc.kind = "source" ->
            symbol.name \o <<" (in ">> \o lossy_file_name(ctx.obj_path) \o <<") (">>
            \o (IF ctx.show_full_path THEN PathToString(symbol.loc.file)
                ELSE lossy_file_name(symbol.loc.file))
            \o <<":">> \o DecDigits(symbol.loc.line) \o <<")">>
      [] symbol.loc.kind = "unknown" ->
            symbol.name \o <<" (in ">> \o lossy_file_name(ctx.obj_path) \o <<") (?)">>
      [] symbol.loc.kind = "offset" ->
            symbol.name \o <<" (in ">> \o lossy_file_name(ctx.obj_path) \o <<") + ">>
            \o U64ToString(symbol.loc.offset)

\* symbols.iter().map(|symbol| format(symbol, ctx)).join("\n")
RECURSIVE join_lines(_, _)
join_lines(symbols, ctx) ==
    IF symbols = <<>> THEN <<>>
    ELSE IF Len(symbols) = 1 THEN format(symbols[1], ctx)
    ELSE format(symbols[1], ctx) \o <<"\n">> \o join_lines(Tail(symbols), ctx)

\* Error's Display (thiserror): the message of the kind, with the address the
\* error carries
error_to_string(e) ==
    CASE e.err = "AddrNotFound" ->
            <<"Address not found (">> \o AddrToString(e.addr) \o <<")">>
      [] e.err = "Gimli" -> <<"Error reading DWARF">>
      [] OTHER -> <<e.err, " (">> \o AddrToString(e.addr) \o <<")">>

\* ------------------------------------------------------------- the inputs

\* Addresses of the image: 0x1_0000_0000 + n
Text(n) == <<0, 1, 0, n>>

\* Highest n of the addresses Text(n) handed to symbolicate.
AddrTop == 6

\* f maps attribute names to values; a DIE carries the attributes of DOMAIN f
AttrsOf(pairs) ==
    [n \in {pairs[k][1] : k \in 1..Len(pairs)} |->
        pairs[CHOOSE k \in 1..Len(pairs) : pairs[k][1] = n][2]]

\* The DW_TAG_inlined_subroutine at [Text(3), Text(4)), in the forms a
\* compiler may give its call site.
InlinedAt3(variant) ==
    AttrsOf(
        << <<"DW_AT_low_pc", AttrAddr(Text(3))>>, <<"DW_AT_high_pc", AttrUdata(1)>>,
           <<"DW_AT_abstract_origin", AttrUnitRef(2)>> >>
        \o CASE variant = "artificial_with_file" ->
                  << <<"DW_AT_artificial", AttrFlag(TRUE)>>,
                     <<"DW_AT_call_file", AttrFileIndex(2)>>,
                     <<"DW_AT_call_line", AttrUdata(300)>> >>
             [] variant = "artificial_no_file" ->
                  << <<"DW_AT_artificial", AttrFlag(TRUE)>> >>
             [] variant = "no_file" ->
                  << <<"DW_AT_call_line", AttrUdata(300)>> >>
             [] variant = "decl_and_call" ->
                  << <<"DW_AT_decl_file", AttrFileIndex(2)>>,
                     <<"DW_AT_decl_line", AttrUdata(11)>>,
                     <<"DW_AT_call_file", AttrFileIndex(1)>>,
                     <<"DW_AT_call_line", AttrUdata(300)>> >>
             [] variant = "bad_file" ->
                  << <<"DW_AT_call_file", AttrFileIndex(9)>>,
                     <<"DW_AT_call_line", AttrUdata(300)>> >>
             [] OTHER ->
                  << <<"DW_AT_call_file", AttrFileIndex(1)>>,
                     <<"DW_AT_call_line", AttrUdata(300)>>,
                     <<"DW_AT_call_column", AttrUdata(2)>> >>)

\* The DIEs of the first unit, in depth-first order.
Unit1Dies(variant) ==
    << Die("DW_TAG_compile_unit", 0, AttrsOf(<< <<"DW_AT_name", AttrString("a.c")>> >>)),
       \* 2: the abstract instance of bar
       Die("DW_TAG_subprogram", 1, AttrsOf(<< <<"DW_AT_name", AttrString("bar")>> >>)),
       \* 3: foo, [Text(1), Text(4))
       Die("DW_TAG_subprogram", 1,
           AttrsOf(<< <<"DW_AT_low_pc", AttrAddr(Text(1))>>,
                      <<"DW_AT_high_pc", AttrUdata(3)>>,
                      <<"DW_AT_linkage_name", AttrString("_ZN3fooE")>>,
                      <<"DW_AT_name", AttrString("foo")>> >>)),
       \* 4: bar inlined into foo, [Text(1), Text(3))
       Die("DW_TAG_inlined_subroutine", 2,
           AttrsOf(<< <<"DW_AT_low_pc", AttrAddr(Text(1))>>,
                      <<"DW_AT_high_pc", AttrAddr(Text(3))>>,
                      <<"DW_AT_abstract_origin", AttrUnitRef(2)>>,
                      <<"DW_AT_call_file", AttrFileIndex(1)>>,
                      <<"DW_AT_call_line", AttrUdata(100)>>,
                      <<"DW_AT_call_column", AttrUdata(5)>> >>)),
       \* 5: a block of bar, [Text(2), Text(3))
       Die("DW_TAG_lexical_block", 3,
           AttrsOf(<< <<"DW_AT_low_pc", AttrAddr(Text(2))>>,
                      <<"DW_AT_high_pc", AttrUdata(1)>> >>)),
       \* 6: baz of the second unit inlined into bar, by a range list
       Die("DW_TAG_inlined_subroutine", 4,
           AttrsOf(<< <<"DW_AT_ranges", AttrRangeListsRef(0)>>,
                      <<"DW_AT_abstract_origin", AttrDebugInfoRef(66)>>,
                      <<"DW_AT_call_file", AttrFileIndex(2)>>,
                      <<"DW_AT_call_line", AttrUdata(200)>> >>)),
       \* 7: bar inlined into foo a second time, [Text(3), Text(4))
       Die("DW_TAG_inlined_subroutine", 2, InlinedAt3(variant)),
       \* 8: main, [Text(4), Text(6))
       Die("DW_TAG_subprogram", 1,
           AttrsOf(<< <<"DW_AT_low_pc", AttrAddr(Text(4))>>,
                      <<"DW_AT_high_pc", AttrAddr(Text(6))>> >>
                   \o IF variant = "unnamed" THEN <<>>
                      ELSE << <<"DW_AT_name", AttrString("main")>> >>)) >>
    \o IF variant # "sibling_inlined" THEN <<>>
       \* 9: under main, bar inlined with the addresses of foo for its range
       ELSE << Die("DW_TAG_inlined_subroutine", 2,
                   AttrsOf(<< <<"DW_AT_low_pc", AttrAddr(Text(1))>>,
                              <<"DW_AT_high_pc", AttrAddr(Text(4))>>,
                              <<"DW_AT_abstract_origin", AttrUnitRef(2)>>,
                              <<"DW_AT_call_file", AttrFileIndex(1)>>,
                              <<"DW_AT_call_line", AttrUdata(400)>> >>)) >>

Unit1LineProgram ==
    [ dirs  |-> << <<"/", "usr", "include">>, <<"inc">> >>,
      files |-> << [directory_index |-> 0, path_name |-> <<"a.c">>],
                   [directory_index |-> 1, path_name |-> <<"stdio.h">>],
                   [directory_index |-> 0, path_name |-> <<"/", "gen", "b.c">>],
                   [directory_index |-> 2, path_name |-> <<"util.h">>] >>,
      rows  |-> << [address |-> Text(1), file |-> 1, line |-> 42, column |-> 0],
                   [address |-> Text(2), file |-> 2, line |-> 7, column |-> 3],
                   [address |-> Text(2), file |-> 1, line |-> 43, column |-> 9],
                   [address |-> Text(3), file |-> 3, line |-> 65578, column |-> 1],
                   [address |-> Text(4), file |-> 4, line |-> 10, column |-> 0] >> ]

\* The DWARF sections of the image, by variant of what the producer left out
\* or got wrong.
Dwarf(variant) ==
    [ aranges |->
        << [ entries |-> << [address |-> Text(1), length |-> Small(3)],
                            [address |-> Text(4), length |-> Small(3)] >>,
             debug_info_offset |-> 11 ],
           [ entries |-> << IF variant = "bad_arange"
                            THEN [address |-> U64Max, length |-> Small(2)]
                            ELSE [address |-> Text(8), length |-> Small(1)] >>,
             debug_info_offset |-> 64 ] >>,
      units |->
        << [ offset |-> 11, length |-> 53,
             comp_dir |-> IF variant = "no_comp_dir" THEN None ELSE Some(<<"/", "src">>),
             line_program |-> IF variant = "no_line_program" THEN None
                              ELSE Some(Unit1LineProgram),
             dies |-> Unit1Dies(variant) ],
           [ offset |-> 64, length |-> 16,
             comp_dir |-> None,
             line_program |-> None,
             dies |-> << Die("DW_TAG_compile_unit", 0,
                             AttrsOf(<< <<"DW_AT_name", AttrString("b.c")>> >>)),
                         Die("DW_TAG_subprogram", 1,
                             AttrsOf(<< <<"DW_AT_linkage_name",
                                          AttrString("__Z3bazv")>> >>)) >> ] >>,
      ranges |-> [r \in {0} |-> << [begin |-> Text(2), end |-> Text(3)] >>] ]

DwarfVariants ==
    { "base", "no_comp_dir", "no_line_program", "unnamed", "bad_arange",
      "artificial_with_file", "artificial_no_file", "no_file", "decl_and_call",
      "bad_file", "sibling_inlined" }

\* The symbol map of the image, sorted by address.
SymbolMap(variant) ==
    IF variant = "stripped" THEN <<>>
    ELSE << [address |-> Text(1), name |-> <<"_ZN3fooE">>],
            [address |-> Text(4), name |-> <<"_main">>] >>

ObjVariants == {"stripped", "symbols"}

Obj(variant) == [symbol_map |-> SymbolMap(variant)]

\* The context of the run.
Ctx(w) ==
    [ obj_path |-> <<"/", "tmp", "app">>,
      include_inlined |-> w.include_inlined,
      show_full_path |-> w.show_full_path,
      delimiter |-> <<"--">> ]

Worlds ==
    [ dwarf : DwarfVariants, obj : ObjVariants,
      include_inlined : BOOLEAN, show_full_path : BOOLEAN ]

AddrPool == {Text(n) : n \in 0..AddrTop}

\* ------------------------------------------------------------- translator

\* Loc: the base mode of the context
LocLoad(l)  == [kind |-> "Load", val |-> l]
LocSlide(s) == [kind |-> "Slide", val |-> s]
LocOffset   == [kind |-> "Offset", val |-> U64Zero]

\* obj.vmaddr(): the address of the __TEXT segment, or
\* Err(VmAddrTextSegmentNotFound) when there is none
vmaddr_of(obj_vmaddr) ==
    IF obj_vmaddr = None
    THEN [kind |-> "error", msg |-> "vmaddr: __TEXT segment not found"]
    ELSE [kind |-> "ok", val |-> Unwrap(obj_vmaddr)]

\* -(x as i64): with overflow checks the negation of i64::MIN panics, without
\* them it wraps
NegateAsI64(x, overflow_checks) ==
    IF x = I64MinBits /\ overflow_checks
    THEN [kind |-> "panic"]
    ELSE [kind |-> "ok", val |-> WrappingNeg(x)]

\* compute_addrs: let offset_addr = match ctx.base_addr { .. }
offset_addr(base, obj_vmaddr, overflow_checks) ==
    CASE base.kind = "Load" ->
            LET v == vmaddr_of(obj_vmaddr)
            IN  IF v.kind = "error" THEN v
                ELSE LET d == checked_sub(base.val, v.val)
                     IN  IF d = None
                         THEN [kind |-> "error", msg |-> "Invalid load address"]
                         ELSE NegateAsI64(Unwrap(d), overflow_checks)
      [] base.kind = "Slide" -> NegateAsI64(base.val, overflow_checks)
      [] base.kind = "Offset" -> vmaddr_of(obj_vmaddr)

\* compute_addrs: one element of addrs.iter().map(..)
translate_addr(addr, off) ==
    LET r == checked_add_signed(addr, off)
    IN  IF r = None
        THEN [kind |-> "error", msg |-> "Invalid address"]
        ELSE [kind |-> "ok", val |-> Unwrap(r)]

\* The u64 values the translator is tried on: the ends of the range and
\* both sides of 2^63, where `as i64` changes sign.
TVals ==
    { U64Zero, Small(1),
      <<HalfLimb - 1, LimbBase - 1, LimbBase - 1, LimbBase - 1>>,
      I64MinBits,
      <<HalfLimb, 0, 0, 1>>,
      <<LimbBase - 1, LimbBase - 1, LimbBase - 1, LimbBase - 2>>,
      U64Max }

TBases == {LocLoad(l) : l \in TVals} \cup {LocSlide(s) : s \in TVals} \cup {LocOffset}

SeqsUpTo(S, n) == UNION {[1..k -> S] : k \in 0..n}

\* no helper is called on its own
HelperIdle == call = None /\ ret = None

\* The variables of symbolicate, at rest while compute_addrs runs.
SymbolicateIdle ==
    /\ world = [dwarf |-> "base", obj |-> "stripped",
                include_inlined |-> FALSE, show_full_path |-> FALSE]
    /\ addrs = <<>> /\ idx = 0 /\ cur = None
    /\ out = <<>> /\ log = <<>>

InitT ==
    /\ SymbolicateIdle
    /\ HelperIdle
    /\ pc = "offset"
    /\ tin \in [observed : SeqsUpTo(TVals, MaxAddrs) \ {<<>>},
                base     : TBases,
                vmaddr   : {Some(v) : v \in TVals} \cup {None}]
    /\ toff = None
    /\ tout = [vals |-> <<>>, err |-> ""]

\* compute_addrs, lines 134-142: the offset, with or without the build's
\* overflow checks
ComputeOffset ==
    /\ pc = "offset"
    /\ \E overflow_checks \in BOOLEAN :
         LET r == offset_addr(tin.base, tin.vmaddr, overflow_checks)
         IN  /\ toff' = IF r.kind = "ok" THEN Some(r.val) ELSE None
             /\ pc' = CASE r.kind = "ok" -> "translate"
                         [] r.kind = "error" -> "t_failed"
                         [] r.kind = "panic" -> "t_panic"
             /\ tout' = IF r.kind = "error" THEN [tout EXCEPT !.err = r.msg] ELSE tout
    /\ UNCHANGED <<world, addrs, idx, cur, out, log, tin, call, ret>>

\* compute_addrs, lines 144-152: the next address; the first Err ends collect()
TranslateNext ==
    /\ pc = "translate"
    /\ Len(tout.vals) < Len(tin.observed)
    /\ LET r == translate_addr(tin.observed[Len(tout.vals) + 1], Unwrap(toff))
       IN  IF r.kind = "ok"
           THEN tout' = [tout EXCEPT !.vals = Append(@, r.val)] /\ pc' = pc
           ELSE tout' = [tout EXCEPT !.err = r.msg] /\ pc' = "t_failed"
    /\ UNCHANGED <<world, addrs, idx, cur, out, log, tin, toff, call, ret>>

\* compute_addrs: collect() returns Ok(vec)
TranslateDone ==
    /\ pc = "translate"
    /\ Len(tout.vals) = Len(tin.observed)
    /\ pc' = "t_done"
    /\ UNCHANGED <<world, addrs, idx, cur, out, log, tin, toff, tout, call, ret>>

NextT == ComputeOffset \/ TranslateNext \/ TranslateDone

SpecT == InitT /\ [][NextT]_vars

\* --- the table of the address translator, in exact arithmetic

Fail == <<>>

\* observed - d, when it is not negative
ExactMinus(observed, d) ==
    IF U64Lt(observed, d) THEN Fail ELSE OverflowingSub(observed, d).val

\* observed + v, when it is below 2^64
ExactPlus(observed, v) ==
    LET r == OverflowingAdd(observed, v) IN IF r.carry THEN Fail ELSE r.val

ExactTranslation(observed, base, vmaddr) ==
    CASE base.kind = "Load" ->
            IF vmaddr = None THEN Fail
            ELSE IF U64Lt(base.val, Unwrap(vmaddr)) THEN Fail
            ELSE ExactMinus(observed, OverflowingSub(base.val, Unwrap(vmaddr)).val)
      [] base.kind = "Slide" -> ExactMinus(observed, base.val)
      [] base.kind = "Offset" ->
            IF vmaddr = None THEN Fail ELSE ExactPlus(observed, Unwrap(vmaddr))

ExactAll ==
    [i \in 1..Len(tin.observed) |->
        ExactTranslation(tin.observed[i], tin.base, tin.vmaddr)]

\* compute_addrs has returned (a run that panicked on the negation returns
\* nothing and is left aside)
TranslatorReturned == pc \in {"t_done", "t_failed"}

\* C5: compute_addrs returns the exact value of the table for every address
\* when all of them lie in [0, 2^64), and fails with an error when one does
\* not; it never returns a wrapped or otherwise different value.
C5_ExactOrInvalid ==
    TranslatorReturned =>
        IF \A i \in 1..Len(tin.observed) : ExactAll[i] # Fail
        THEN pc = "t_done" /\ tout.vals = ExactAll
        ELSE pc = "t_failed"

\* ------------------------------------------------------------ symbolicate

\* the DWARF of each image, loaded once
LoadedDwarf == [variant \in DwarfVariants |-> Dwarf(variant)]

TheDwarf == LoadedDwarf[world.dwarf]
TheObj   == Obj(world.obj)
TheCtx   == Ctx(world)

\* recovers, forgetting AddrDebugInfoOffsetMissing
recovers_only_not_found(result) ==
    ~result.ok /\ result.err \in {"AddrNotFound"}

\* symbolicate, line 61: the errors of atos_dwarf that send the address to
\* atos_obj
recovers(result) ==
    ~result.ok /\ result.err \in {"AddrNotFound", "AddrDebugInfoOffsetMissing"}

\* group_of, without the arm of line 76: AddrNotFound prints as any error
group_of_printing_not_found(result, ctx) ==
    IF result.ok THEN join_lines(result.val, ctx)
    ELSE error_to_string(result)

\* symbolicate, lines 67-78: the String of one address, from its symbols or
\* from its error
group_of(result, ctx) ==
    IF result.ok THEN join_lines(result.val, ctx)
    ELSE IF result.err = "AddrNotFound" THEN AddrToString(result.addr)
    ELSE error_to_string(result)

\* The variables of compute_addrs, at rest while symbolicate runs.
TranslatorIdle ==
    /\ tin = [observed |-> <<>>, base |-> LocOffset, vmaddr |-> None]
    /\ toff = None
    /\ tout = [vals |-> <<>>, err |-> ""]

Init ==
    /\ world \in Worlds
    /\ addrs \in SeqsUpTo(AddrPool, MaxAddrs)
    /\ pc = "next"
    /\ idx = 0
    /\ cur = None
    /\ out = <<>>
    /\ log = <<>>
    /\ TranslatorIdle
    /\ HelperIdle

\* the closure of line 59 is entered for the next address: atos_dwarf
Resolve ==
    /\ pc = "next"
    /\ idx < Len(addrs)
    /\ \E r \in {atos_dwarf(TheDwarf, addrs[idx + 1], world.include_inlined)} :
           /\ cur' = Some(r)
           /\ log' = Append(log, [resolver |-> IF r.ok THEN "Ok" ELSE r.err,
                                  fallback |-> FALSE])
    /\ pc' = "match"
    /\ UNCHANGED <<world, addrs, idx, out, tin, toff, tout, call, ret>>

\* lines 61-63: the first arm of the match, atos_obj on the address the error
\* carries
Fallback ==
    /\ pc = "match"
    /\ recovers(Unwrap(cur))
    /\ cur' = Some(atos_obj(TheObj, Unwrap(cur).addr))
    /\ log' = [log EXCEPT ![Len(log)].fallback = TRUE]
    /\ pc' = "emit"
    /\ UNCHANGED <<world, addrs, idx, out, tin, toff, tout, call, ret>>

\* line 64: the second arm, `symbols => symbols?`
Propagate ==
    /\ pc = "match"
    /\ ~recovers(Unwrap(cur))
    /\ pc' = "emit"
    /\ UNCHANGED <<world, addrs, idx, cur, out, log, tin, toff, tout, call, ret>>

\* Emit, dropping the addresses that failed (a flat_map over the Results)
EmitDroppingErrors ==
    /\ pc = "emit"
    /\ out' = IF ~Unwrap(cur).ok THEN out
              ELSE out
                   \o (IF world.include_inlined /\ idx > 0
                       THEN <<TheCtx.delimiter>> ELSE <<>>)
                   \o <<group_of(Unwrap(cur), TheCtx)>>
    /\ idx' = idx + 1
    /\ cur' = None
    /\ pc' = "next"
    /\ UNCHANGED <<world, addrs, log, tin, toff, tout, call, ret>>

\* lines 67-84: the String of the address reaches the Vec, after the
\* delimiter that intersperse puts before every item but the first
Emit ==
    /\ pc = "emit"
    /\ out' = out
              \o (IF world.include_inlined /\ idx > 0
                  THEN <<TheCtx.delimiter>> ELSE <<>>)
              \o <<group_of(Unwrap(cur), TheCtx)>>
    /\ idx' = idx + 1
    /\ cur' = None
    /\ pc' = "next"
    /\ UNCHANGED <<world, addrs, log, tin, toff, tout, call, ret>>

\* Finish, without the chain([delimiter]) of line 83
FinishWithoutTrailingDelimiter ==
    /\ pc = "next"
    /\ idx = Len(addrs)
    /\ pc' = "done"
    /\ UNCHANGED <<world, addrs, idx, cur, out, log, tin, toff, tout, call, ret>>

\* lines 80-87: the iterator is exhausted; chain([delimiter]) when
\* include_inlined
Finish ==
    /\ pc = "next"
    /\ idx = Len(addrs)
    /\ out' = out \o (IF world.include_inlined THEN <<TheCtx.delimiter>> ELSE <<>>)
    /\ pc' = "done"
    /\ UNCHANGED <<world, addrs, idx, cur, log, tin, toff, tout, call, ret>>

Next == Resolve \/ Fallback \/ Propagate \/ Emit \/ Finish

Spec == Init /\ [][Next]_vars

\* -------------------------------------------------------------- properties

Inlined == world.include_inlined

\* the String of the i-th address in the Vec
GroupAt(i) == out[IF Inlined THEN 2 * i - 1 ELSE i]

\* what atos_dwarf returns for each address of each image
ResolverResults ==
    [variant \in DwarfVariants |-> [include_inlined \in BOOLEAN |->
        [a \in AddrPool |-> atos_dwarf(LoadedDwarf[variant], a, include_inlined)]]]

\* what atos_dwarf returns for an address under the context of the run
Resolved(a) == ResolverResults[world.dwarf][Inlined][a]

RecoveredKinds == {"AddrNotFound", "AddrDebugInfoOffsetMissing"}

\* the result the dispatcher formats for an address: the resolver's, or the
\* symbol map's after a recovered error
Dispatched(a, include_inlined) ==
    LET r == ResolverResults[world.dwarf][include_inlined][a]
    IN  IF ~r.ok /\ r.err \in RecoveredKinds THEN atos_obj(TheObj, a) ELSE r

ExpectedGroup(a) == group_of(Dispatched(a, Inlined), TheCtx)

\* C1: for every address handled, atos_obj ran if and only if atos_dwarf
\* returned AddrNotFound or AddrDebugInfoOffsetMissing; after any other error
\* of the resolver the fallback did not run and the entry of the address is
\* the message of that error.
C1_FallbackIffRecoverable ==
    \A i \in 1..idx :
        LET r == Resolved(addrs[i])
        IN  /\ log[i].fallback <=> (~r.ok /\ r.err \in RecoveredKinds)
            /\ (~r.ok /\ r.err \notin RecoveredKinds)
                    => GroupAt(i) = error_to_string(r)

\* an address went to the fallback and another printed the resolver's error
C1_Witness ==
    \E i, j \in 1..idx :
        /\ log[i].fallback /\ log[i].resolver = "AddrDebugInfoOffsetMissing"
        /\ ~log[j].fallback /\ log[j].resolver = "AddrSymbolMissing"
        /\ GroupAt(j)[1] = "AddrSymbolMissing"

\* --- C2

LowerHex == {HexDigits[k] : k \in 1..16}

HexValueOf(c) == (CHOOSE k \in 1..16 : HexDigits[k] = c) - 1

\* the 16-bit value of four hexadecimal digits of str from position p
LimbAt(str, p) ==
    4096 * HexValueOf(str[p]) + 256 * HexValueOf(str[p + 1])
    + 16 * HexValueOf(str[p + 2]) + HexValueOf(str[p + 3])

\* str is 0x and 16 lowercase hexadecimal digits, and reads as the address a
IsHexOf(str, a) ==
    /\ Len(str) = 18
    /\ str[1] = "0" /\ str[2] = "x"
    /\ \A k \in 3..18 : str[k] \in LowerHex
    /\ <<LimbAt(str, 3), LimbAt(str, 7), LimbAt(str, 11), LimbAt(str, 15)>> = a

NoEntryAtOrBelow(a) ==
    \A k \in 1..Len(TheObj.symbol_map) : ~U64Le(TheObj.symbol_map[k].address, a)

BothFailed(a) ==
    /\ ~Resolved(a).ok /\ Resolved(a).err \in RecoveredKinds
    /\ NoEntryAtOrBelow(a)

\* C2: when the resolver returned AddrNotFound or AddrDebugInfoOffsetMissing
\* and the symbol map has no entry at or below the address, the entry of the
\* address is 0x and the 16 lowercase hexadecimal digits of the address, and
\* nothing else.
C2_UnknownAddressIsHex ==
    \A i \in 1..idx : BothFailed(addrs[i]) => IsHexOf(GroupAt(i), addrs[i])

\* an address below every symbol of a map that has symbols was printed, in an
\* image whose DWARF does not cover it
C2_Witness ==
    \E i \in 1..idx :
        /\ BothFailed(addrs[i])
        /\ world.obj = "symbols"
        /\ GroupAt(i) = <<"0", "x", "0", "0", "0", "0", "0", "0", "0", "1",
                          "0", "0", "0", "0", "0", "0", "0", "0">>

\* --- C3

\* the number of entries of the Vec after idx addresses
EntriesAfter(n) ==
    IF Inlined
    THEN (IF n = 0 THEN 0 ELSE 2 * n - 1) + (IF pc = "done" THEN 1 ELSE 0)
    ELSE n

\* C3: the Vec holds one group per address handled, the i-th group is that of
\* the i-th address whatever happened to the other addresses, every address
\* has been handled when symbolicate returns, and without include_inlined the
\* Vec then has exactly n entries.
C3_OneGroupPerAddressInOrder ==
    /\ Len(out) = EntriesAfter(idx)
    /\ \A i \in 1..idx : GroupAt(i) = ExpectedGroup(addrs[i])
    /\ pc = "done" => idx = Len(addrs)
    /\ (pc = "done" /\ ~Inlined) => Len(out) = Len(addrs)

\* symbolicate returned for two addresses, the first unknown to DWARF and to
\* the symbol map, the second resolved
C3_Witness ==
    /\ pc = "done" /\ Len(addrs) = 2 /\ ~Inlined
    /\ log[1].fallback /\ BothFailed(addrs[1])
    /\ log[2].resolver = "Ok"
    /\ Len(out) = 2

\* --- C4

\* the unit that owns an address the resolver resolved
UnitOf(a) == TheDwarf.units[unit_from_addr(TheDwarf, a).val]
UnitIndexOf(a) == unit_from_addr(TheDwarf, a).val

\* the first DW_TAG_subprogram of the unit, in depth-first order, that holds a
SubprogramOf(a) ==
    CHOOSE k \in 1..Len(UnitOf(a).dies) :
        /\ UnitOf(a).dies[k].tag = "DW_TAG_subprogram"
        /\ entry_contains(TheDwarf, UnitOf(a).dies[k], a)
        /\ \A j \in 1..(k - 1) :
              ~(/\ UnitOf(a).dies[j].tag = "DW_TAG_subprogram"
                /\ entry_contains(TheDwarf, UnitOf(a).dies[j], a))

\* the proper descendants of DIE p in the tree
Descendants(unit, p) ==
    {k \in (p + 1)..Len(unit.dies) :
        \A j \in (p + 1)..k : unit.dies[j].depth > unit.dies[p].depth}

\* the inlined subroutines below the subprogram of a that hold a
InlinedOver(a) ==
    {k \in Descendants(UnitOf(a), SubprogramOf(a)) :
        /\ UnitOf(a).dies[k].tag = "DW_TAG_inlined_subroutine"
        /\ entry_contains(TheDwarf, UnitOf(a).dies[k], a)}

\* the j-th frame from the outside: the subprogram is frame 0, the inlined
\* subroutine that holds a at the j-th least depth is frame j
FrameDie(a, j) ==
    IF j = 0 THEN SubprogramOf(a)
    ELSE CHOOSE k \in InlinedOver(a) :
            Cardinality({m \in InlinedOver(a) :
                UnitOf(a).dies[m].depth < UnitOf(a).dies[k].depth}) = j - 1

NameOfDie(a, k) == demangle(entry_symbol(TheDwarf, a, UnitIndexOf(a), k).val)

\* atos_dwarf has just returned Ok for the address in hand
ResolverReturnedOk == pc = "match" /\ Unwrap(cur).ok

\* C4: with include_inlined, a successful result of atos_dwarf is not empty
\* and is ordered innermost first: its last element is named after the
\* subprogram that holds the address, its first after the deepest inlined
\* subroutine that holds it (the subprogram when there is none), and the
\* elements between after the inlined subroutines between, by depth.
C4_InnermostFirst ==
    (ResolverReturnedOk /\ Inlined) =>
        LET a == addrs[idx + 1]
            res == Unwrap(cur).val
            n == Cardinality(InlinedOver(a))
        IN  /\ Len(res) = n + 1
            /\ \A j \in 0..n : res[Len(res) - j].name = NameOfDie(a, FrameDie(a, j))

\* a result of three frames: baz() inlined into bar inlined into foo
C4_Witness ==
    /\ ResolverReturnedOk /\ Inlined
    /\ Len(Unwrap(cur).val) = 3
    /\ Unwrap(cur).val[1].name = <<"baz()">>
    /\ Unwrap(cur).val[2].name = <<"bar">>
    /\ Unwrap(cur).val[3].name = <<"foo">>

\* --- C6

\* the dispatcher has a result for the address in hand
DispatcherReturnedOk == pc = "emit" /\ Unwrap(cur).ok

LastSymbol == Unwrap(cur).val[Len(Unwrap(cur).val)]

\* resolving the address of the last Symbol again, without inlined frames,
\* yields one Symbol of the same name
ReResolvesToSameName ==
    LET again == Dispatched(LastSymbol.addr, FALSE)
    IN  /\ again.ok
        /\ Len(again.val) = 1
        /\ again.val[1].name = LastSymbol.name

\* C6, as claimed: for every address the dispatcher resolved, by DWARF or by
\* the symbol map, resolving the addr of the last Symbol again with
\* include_inlined = false yields a single Symbol of the same name.
C6_ReResolvesToSameName ==
    DispatcherReturnedOk => ReResolvesToSameName

\* C6, amended: the same for every address resolved by DWARF.
C6_DwarfReResolvesToSameName ==
    (DispatcherReturnedOk /\ ~log[Len(log)].fallback) => ReResolvesToSameName

\* an address resolved by DWARF to three frames
C6_Witness ==
    /\ DispatcherReturnedOk /\ ~log[Len(log)].fallback
    /\ Inlined /\ Len(Unwrap(cur).val) = 3
    /\ LastSymbol.name = <<"foo">>

\* --- C7

\* atos_obj has just returned for the address in hand
FallbackReturned == pc = "emit" /\ log[Len(log)].fallback

\* C7: on a hit atos_obj returns exactly one Symbol: its addr is the address
\* of the greatest entry of the symbol map at or below the query, its name
\* the demangled name of that entry, and its offset plus the entry's address
\* is the query with no carry (the subtraction did not wrap); on a miss it
\* fails with AddrNotFound(query).
C7_GreatestEntryAtOrBelow ==
    FallbackReturned =>
        LET q == addrs[idx + 1]
            map == TheObj.symbol_map
            below == {k \in 1..Len(map) : U64Le(map[k].address, q)}
            r == Unwrap(cur)
        IN  IF below = {}
            THEN ~r.ok /\ r.err = "AddrNotFound" /\ r.addr = q
            ELSE /\ r.ok
                 /\ Len(r.val) = 1
                 /\ r.val[1].loc.kind = "offset"
                 /\ \E k \in below :
                       /\ \A j \in below : U64Le(map[j].address, map[k].address)
                       /\ r.val[1].addr = map[k].address
                       /\ r.val[1].name = demangle(map[k].name)
                       /\ OverflowingAdd(r.val[1].loc.offset, map[k].address)
                            = [val |-> q, carry |-> FALSE]

\* a hit two bytes into the second symbol of the map
C7_Witness ==
    /\ FallbackReturned /\ Unwrap(cur).ok
    /\ addrs[idx + 1] = Text(6)
    /\ Unwrap(cur).val[1].addr = Text(4)
    /\ Unwrap(cur).val[1].loc.offset = Small(2)

\* --- C8

\* C8: with include_inlined the Vec returned for n >= 1 addresses has 2n
\* entries, the groups at the odd positions in the order of the addresses and
\* the delimiter at every even position, the last included; without
\* include_inlined it holds the n groups and no delimiter.
C8_DelimiterAfterEveryGroup ==
    (pc = "done" /\ Len(addrs) >= 1) =>
        IF Inlined
        THEN /\ Len(out) = 2 * Len(addrs)
             /\ \A k \in 1..Len(addrs) :
                   /\ out[2 * k] = TheCtx.delimiter
                   /\ out[2 * k - 1] = ExpectedGroup(addrs[k])
        ELSE /\ Len(out) = Len(addrs)
             /\ \A k \in 1..Len(addrs) :
                   /\ out[k] = ExpectedGroup(addrs[k])
                   /\ out[k] # TheCtx.delimiter

\* two groups, each followed by the delimiter
C8_Witness ==
    /\ pc = "done" /\ Inlined /\ Len(addrs) = 2
    /\ Len(out) = 4
    /\ out[2] = <<"--">> /\ out[4] = <<"--">>
    /\ out[1] # <<"--">> /\ out[3] # <<"--">>

\* --- C9

\* C9: every SourceLoc of a result of atos_dwarf (whose unit has a
\* DW_AT_comp_dir, or the resolver had failed) has an absolute file path.
C9_FileIsAbsolute ==
    ResolverReturnedOk =>
        \A k \in 1..Len(Unwrap(cur).val) :
            Unwrap(cur).val[k].loc.kind = "source"
                => IsAbsolute(Unwrap(cur).val[k].loc.file)

\* --- C10

HasFileAttribute(entry) ==
    \/ "DW_AT_decl_file" \in DOMAIN entry.attrs
    \/ "DW_AT_call_file" \in DOMAIN entry.attrs

IsArtificial(entry) ==
    /\ "DW_AT_artificial" \in DOMAIN entry.attrs
    /\ entry.attrs["DW_AT_artificial"] = AttrFlag(TRUE)

\* C10: the location built from an inlined subroutine that is artificial, or
\* has no file attribute, is comp_dir/<compiler-generated>, line 0, column 0.
\* (The location of the j-th inlined subroutine from the outside is carried
\* by the j-th Symbol from the end of the result.)
C10_ArtificialIsCompilerGenerated ==
    (ResolverReturnedOk /\ Inlined) =>
        LET a == addrs[idx + 1]
            res == Unwrap(cur).val
        IN  \A j \in 1..Cardinality(InlinedOver(a)) :
                LET entry == UnitOf(a).dies[FrameDie(a, j)]
                IN  (IsArtificial(entry) \/ ~HasFileAttribute(entry))
                        => res[Len(res) - j + 1].loc
                             = SourceLoc(Unwrap(UnitOf(a).comp_dir)
                                            \o <<"<compiler-generated>">>, 0, 0)

\* ------------------------------------------------ the helpers on their own

\* The helpers of the resolver take what the DWARF of the image holds, which
\* is any value its forms can encode.  Each is called here on arguments of
\* its own: pc goes from "call" to "returned", or to "panicked" when the
\* build checks overflow and an addition overflows.

\* an address two below the top of the address space
NearTop == <<65535, 65535, 65535, 65534>>

\* entry_pc_contains, line 298: `low + len` exceeds u64
pc_high_overflows(entry) ==
    LET low  == attr_value(entry, "DW_AT_low_pc")
        high == attr_value(entry, "DW_AT_high_pc")
    IN  /\ low # None /\ Unwrap(low).form = "Addr"
        /\ high # None /\ Unwrap(high).form = "Udata"
        /\ OverflowingAdd(Unwrap(low).u64, Small(Unwrap(high).n)).carry

\* --- entry_contains

LowPcs ==
    { None, Some(AttrAddr(Text(2))), Some(AttrAddr(NearTop)), Some(AttrUdata(2)) }

HighPcs ==
    { None, Some(AttrAddr(Text(4))), Some(AttrUdata(2)), Some(AttrUdata(0)),
      Some(AttrString("x")) }

RangesAttrs ==
    { None, Some(AttrRangeListsRef(0)), Some(AttrRangeListsRef(1)),
      Some(AttrRangeListsRef(7)), Some(AttrUdata(0)) }

\* .debug_rnglists: list 0 lies beyond [Text(2), Text(4)), list 1 has two
\* ranges around Text(2); there is no list 7
RangeLists ==
    [ ranges |->
        [r \in {0, 1} |->
            IF r = 0 THEN << [begin |-> Text(5), end |-> Text(6)] >>
            ELSE << [begin |-> Text(1), end |-> Text(2)],
                    [begin |-> Text(3), end |-> Text(5)] >>] ]

\* a DIE with the given low_pc, high_pc and ranges attributes, when present
RangeEntry(low, high, ranges) ==
    Die("DW_TAG_subprogram", 1,
        AttrsOf((IF low = None THEN <<>> ELSE << <<"DW_AT_low_pc", Unwrap(low)>> >>)
             \o (IF high = None THEN <<>> ELSE << <<"DW_AT_high_pc", Unwrap(high)>> >>)
             \o (IF ranges = None THEN <<>>
                 ELSE << <<"DW_AT_ranges", Unwrap(ranges)>> >>)))

ContainsAddrs == {Text(n) : n \in 0..6} \cup {U64Zero, NearTop, U64Max}

ContainsCalls ==
    { [fn |-> "entry_contains", entry |-> RangeEntry(l, h, r), addr |-> a] :
        l \in LowPcs, h \in HighPcs, r \in RangesAttrs, a \in ContainsAddrs }

\* entry_contains(entry, addr, unit)
Contains ==
    /\ pc = "call"
    /\ Unwrap(call).fn = "entry_contains"
    /\ \E overflow_checks \in BOOLEAN :
          IF overflow_checks /\ pc_high_overflows(Unwrap(call).entry)
          THEN pc' = "panicked" /\ ret' = None
          ELSE /\ pc' = "returned"
               /\ ret' = Some(entry_contains(RangeLists, Unwrap(call).entry,
                                             Unwrap(call).addr))
    /\ UNCHANGED <<world, addrs, idx, cur, out, log, tin, toff, tout, call>>

\* --- entry_debug_line

\* the longest line program drawn
MaxRows == 3

\* rows of the line program: at either of two addresses, in a.c of the
\* compilation directory or in stdio.h of /usr/include, with a column or at
\* the left edge (column 0)
LineRows ==
    { [address |-> a, file |-> f[1], line |-> f[2], column |-> f[3]] :
        a \in {Text(1), Text(2)}, f \in {<<1, 42, 0>>, <<2, 7, 3>>, <<1, 43, 9>>} }

\* the first unit of the image with the rows given for its line program
UnitWithRows(rows) ==
    [ Dwarf("base").units[1] EXCEPT
        !.line_program = Some([Unit1LineProgram EXCEPT !.rows = rows]) ]

DebugLineCalls ==
    { [fn |-> "entry_debug_line", rows |-> rows, addr |-> a] :
        rows \in SeqsUpTo(LineRows, MaxRows), a \in {Text(1), Text(2)} }

\* entry_debug_line(addr, line_rows, unit)
DebugLine ==
    /\ pc = "call"
    /\ Unwrap(call).fn = "entry_debug_line"
    /\ pc' = "returned"
    /\ ret' = Some(entry_debug_line(Unwrap(call).addr,
                                    UnitWithRows(Unwrap(call).rows)))
    /\ UNCHANGED <<world, addrs, idx, cur, out, log, tin, toff, tout, call>>

\* --- entry_symbol

\* the activations of entry_symbol the stack has room for
StackDepth == 4

\* Three DIEs: 1 and 2 in the first unit (at .debug_info offsets 12 and 13),
\* 3 in the second (at offset 65).  Each carries any of the three name
\* attributes: a linkage name, an abstract origin that names one of the three
\* DIEs (0: none, 9: a DIE that does not exist), a name (possibly the empty
\* string).
NameDies == 1..3

UnitOfNameDie(d) == IF d = 3 THEN 2 ELSE 1

IndexOfNameDie(d) == IF d = 3 THEN 1 ELSE d

NameChoices ==
    [ linkage : {None, Some("_ZN3fooE")},
      origin  : {0, 1, 2, 3, 9},
      name    : {None, Some("bar"), Some("")} ]

\* the reference from DIE d to DIE t: a UnitRef inside a unit, a
\* DebugInfoRef across units
RefTo(d, t) ==
    IF t = 9 THEN AttrUnitRef(9)
    ELSE IF UnitOfNameDie(t) = UnitOfNameDie(d) THEN AttrUnitRef(IndexOfNameDie(t))
    ELSE AttrDebugInfoRef((IF UnitOfNameDie(t) = 1 THEN 11 ELSE 64) + IndexOfNameDie(t))

NameDie(graph, d) ==
    Die("DW_TAG_subprogram", 1,
        AttrsOf((IF graph[d].linkage = None THEN <<>>
                 ELSE << <<"DW_AT_linkage_name",
                           AttrString(Unwrap(graph[d].linkage))>> >>)
             \o (IF graph[d].origin = 0 THEN <<>>
                 ELSE << <<"DW_AT_abstract_origin", RefTo(d, graph[d].origin)>> >>)
             \o (IF graph[d].name = None THEN <<>>
                 ELSE << <<"DW_AT_name", AttrString(Unwrap(graph[d].name))>> >>)))

\* .debug_info with the three DIEs
NameDwarf(graph) ==
    [ units |-> << [ offset |-> 11, length |-> 53,
                     dies |-> <<NameDie(graph, 1), NameDie(graph, 2)>> ],
                   [ offset |-> 64, length |-> 16,
                     dies |-> <<NameDie(graph, 3)>> ] >> ]

\* entry_symbol is called on DIE 1
SymbolCalls ==
    { [fn |-> "entry_symbol", graph |-> g, addr |-> Text(1)] :
        g \in [NameDies -> NameChoices] }

\* an activation of entry_symbol on DIE e of unit u, `depth` activations deep
Activation(u, e, depth) == [u |-> u, e |-> e, depth |-> depth]

\* entry_symbol(addr, entry, unit) is called
CallSymbol ==
    /\ pc = "call"
    /\ Unwrap(call).fn = "entry_symbol"
    /\ pc' = "entry_symbol"
    /\ ret' = Some(Activation(1, 1, 1))
    /\ UNCHANGED <<world, addrs, idx, cur, out, log, tin, toff, tout, call>>

\* the innermost activation runs: it returns, and every activation around it
\* returns the same value or the same error (lines 184, 197: `?` and
\* Cow::Owned), or it calls entry_symbol on the DIE referred to, which the
\* process does not survive when the stack is full
SymbolStep ==
    /\ pc = "entry_symbol"
    /\ LET a == Unwrap(ret)
           s == entry_symbol_step(NameDwarf(Unwrap(call).graph), Unwrap(call).addr,
                                  a.u, a.e)
       IN  IF s.done THEN pc' = "returned" /\ ret' = Some(s.result)
           ELSE IF a.depth >= StackDepth THEN pc' = "stack_overflow" /\ ret' = None
           ELSE pc' = "entry_symbol" /\ ret' = Some(Activation(s.u, s.e, a.depth + 1))
    /\ UNCHANGED <<world, addrs, idx, cur, out, log, tin, toff, tout, call>>

HelperCalls == ContainsCalls \cup DebugLineCalls \cup SymbolCalls

InitH ==
    /\ SymbolicateIdle
    /\ TranslatorIdle
    /\ pc = "call"
    /\ call \in {Some(c) : c \in HelperCalls}
    /\ ret = None

NextH == Contains \/ DebugLine \/ CallSymbol \/ SymbolStep

SpecH == InitH /\ [][NextH]_vars

\* --- C11

\* the DIE has DW_AT_low_pc as an address and DW_AT_high_pc as an address or
\* a length
HasPcPair(entry) ==
    /\ "DW_AT_low_pc" \in DOMAIN entry.attrs
    /\ entry.attrs["DW_AT_low_pc"].form = "Addr"
    /\ "DW_AT_high_pc" \in DOMAIN entry.attrs
    /\ entry.attrs["DW_AT_high_pc"].form \in {"Addr", "Udata"}

\* low_pc <= addr < high, where high is DW_AT_high_pc when it is an address
\* and the u64 low_pc + length when it is a length
InHalfOpenPcRange(entry, addr) ==
    LET low  == entry.attrs["DW_AT_low_pc"].u64
        high == entry.attrs["DW_AT_high_pc"]
    IN  /\ U64Le(low, addr)
        /\ U64Lt(addr, IF high.form = "Addr" THEN high.u64
                       ELSE OverflowingAdd(low, Small(high.n)).val)

\* some range of the list DW_AT_ranges names holds addr
InSomeRange(entry, addr) ==
    /\ "DW_AT_ranges" \in DOMAIN entry.attrs
    /\ entry.attrs["DW_AT_ranges"].form = "RangeListsRef"
    /\ entry.attrs["DW_AT_ranges"].n \in DOMAIN RangeLists.ranges
    /\ \E k \in 1..Len(RangeLists.ranges[entry.attrs["DW_AT_ranges"].n]) :
          LET r == RangeLists.ranges[entry.attrs["DW_AT_ranges"].n][k]
          IN  U64Le(r.begin, addr) /\ U64Lt(addr, r.end)

ContainsReturned == pc = "returned" /\ Unwrap(call).fn = "entry_contains"

DebugLineReturned == pc = "returned" /\ Unwrap(call).fn = "entry_debug_line"

\* the rows of the line program at the lookup address
RowsAt(rows, addr) == {k \in 1..Len(rows) : rows[k].address = addr}

\* the last of them
LastRowAt(rows, addr) ==
    rows[CHOOSE k \in RowsAt(rows, addr) : \A j \in RowsAt(rows, addr) : j <= k]

\* the SourceLoc of one row: its file, its line and its column
SourceLocOfRow(row, unit) ==
    SourceLoc(line_row_file(row, Unwrap(unit.line_program), unit).val,
              AsU16(row.line), AsU16(row.column))

\* C12: entry_debug_line returns the SourceLoc of the last row whose address
\* is the lookup address, file, line and column all of that row, the column
\* 0 at the left edge; with no row at the address it fails with
\* AddrLineInfoMissing(addr).
C12_LastMatchingRow ==
    DebugLineReturned =>
        LET rows == Unwrap(call).rows
            addr == Unwrap(call).addr
        IN  IF RowsAt(rows, addr) = {}
            THEN Unwrap(ret) = Err("AddrLineInfoMissing", addr)
            ELSE Unwrap(ret) = Ok(SourceLocOfRow(LastRowAt(rows, addr),
                                                 UnitWithRows(rows)))

\* --- C13

\* the first of the attributes named that the DIE carries as a u16
FirstU16(entry, names) ==
    LET present == {k \in 1..Len(names) :
                        /\ names[k] \in DOMAIN entry.attrs
                        /\ entry.attrs[names[k]].form = "Udata"
                        /\ entry.attrs[names[k]].n < U16Range}
    IN  IF present = {} THEN None
        ELSE Some(entry.attrs[names[CHOOSE k \in present :
                                        \A j \in present : k <= j]].n)

\* the call site recorded on an inlined subroutine: DW_AT_call_file,
\* DW_AT_call_line and DW_AT_call_column, the DW_AT_decl_ attributes where
\* those are absent; <compiler-generated> for an artificial DIE or one
\* without a file; no location when the file or the line cannot be read
CallSiteOf(entry, unit) ==
    LET lp == Unwrap(unit.line_program)
        index == IF "DW_AT_call_file" \in DOMAIN entry.attrs
                 THEN entry.attrs["DW_AT_call_file"].n
                 ELSE entry.attrs["DW_AT_decl_file"].n
        line == FirstU16(entry, <<"DW_AT_call_line", "DW_AT_decl_line">>)
        col == FirstU16(entry, <<"DW_AT_call_column", "DW_AT_decl_column">>)
    IN  IF IsArtificial(entry) \/ ~HasFileAttribute(entry)
        THEN CompilerGenerated(Unwrap(unit.comp_dir))
        ELSE IF index \notin 1..Len(lp.files) \/ line = None THEN NoSourceLoc
        ELSE SourceLoc(
                PathJoin(IF lp.files[index].directory_index = 0
                         THEN Unwrap(unit.comp_dir)
                         ELSE lp.dirs[lp.files[index].directory_index],
                         lp.files[index].path_name),
                Unwrap(line),
                IF col = None THEN 0 ELSE Unwrap(col))

\* C13: in a result with inlined frames, the frame named after the innermost
\* inlined subroutine carries the location of the line-program row, the frame
\* named after each other function of the chain, the subprogram included,
\* carries the call site recorded on the next inlined subroutine inwards
\* (stated here for the inlined subroutines that are not artificial).
C13_NamePairedWithChildCallSite ==
    (ResolverReturnedOk /\ Inlined) =>
        LET a == addrs[idx + 1]
            res == Unwrap(cur).val
            n == Cardinality(InlinedOver(a))
        IN  /\ Len(res) = n + 1
            /\ res[1].name = NameOfDie(a, FrameDie(a, n))
            /\ res[1].loc = entry_debug_line(a, UnitOf(a)).val
            /\ \A j \in 0..(n - 1) :
                  /\ res[Len(res) - j].name = NameOfDie(a, FrameDie(a, j))
                  /\ ~IsArtificial(UnitOf(a).dies[FrameDie(a, j + 1)])
                        => res[Len(res) - j].loc
                            = CallSiteOf(UnitOf(a).dies[FrameDie(a, j + 1)], UnitOf(a))

\* --- C14

\* the attribute of the DIE the cascade takes: the first it carries
TakenAttr(choice) ==
    IF choice.linkage # None THEN "linkage_name"
    ELSE IF choice.origin # 0 THEN "abstract_origin"
    ELSE IF choice.name # None THEN "name"
    ELSE "none"

\* the DIE name resolution goes to from DIE d: 0 when it ends at d
RefersTo(graph, d) ==
    IF TakenAttr(graph[d]) = "abstract_origin" /\ graph[d].origin \in NameDies
    THEN graph[d].origin ELSE 0

\* the DIE reached from d after k references, 0 when resolution ended before
RECURSIVE Follow(_, _, _)
Follow(graph, d, k) ==
    IF k = 0 \/ d = 0 THEN d ELSE Follow(graph, RefersTo(graph, d), k - 1)

\* the references from d lead into a cycle: with three DIEs, a chain of three
\* references has come back to a DIE it has visited
LeadsIntoCycle(graph, d) == Follow(graph, d, Cardinality(NameDies)) # 0

SymbolCallEnded ==
    Unwrap(call).fn = "entry_symbol" /\ pc \in {"returned", "stack_overflow"}

\* C14: every call of entry_symbol returns, and when the references lead
\* into a cycle it returns the error AddrSymbolMissing.
C14_CycleEndsInSymbolMissing ==
    (call # None /\ SymbolCallEnded) =>
        /\ pc = "returned"
        /\ LeadsIntoCycle(Unwrap(call).graph, 1)
              => Unwrap(ret) = Err("AddrSymbolMissing", Unwrap(call).addr)

\* --- C15

\* the k-th of a set of DIEs in depth-first order
NthDie(dies, k) ==
    CHOOSE m \in dies : Cardinality({j \in dies : j < m}) = k - 1

\* the location a frame carries when it was added for the DIE
LocOfDie(unit, m) ==
    LET loc == entry_source_loc(unit.dies[m], Unwrap(unit.comp_dir), unit)
    IN  IF loc = None THEN NoSourceLoc ELSE Unwrap(loc)

\* C15: the frames the walk adds are those of the DW_TAG_inlined_subroutine
\* DIEs that are proper descendants of the subprogram found and hold the
\* address, one frame each, in depth-first order (the first added is the last
\* of the result); the DIEs of the subprograms that follow add none.
C15_WalkStaysInsideSubprogram ==
    (ResolverReturnedOk /\ Inlined) =>
        LET a == addrs[idx + 1]
            res == Unwrap(cur).val
            inside == InlinedOver(a)
        IN  /\ Len(res) = Cardinality(inside) + 1
            /\ \A k \in 1..Cardinality(inside) :
                  res[Len(res) - k + 1].loc = LocOfDie(UnitOf(a), NthDie(inside, k))

\* an address of foo inside two inlined subroutines of foo, and inside the
\* range of an inlined subroutine found under main: three frames
C15_Witness ==
    /\ ResolverReturnedOk /\ Inlined
    /\ world.dwarf = "sibling_inlined"
    /\ addrs[idx + 1] = Text(2)
    /\ entry_contains(TheDwarf, UnitOf(Text(2)).dies[9], Text(2))
    /\ Len(Unwrap(cur).val) = 3

\* --- C16

\* the DIE the references from d end at, after at most k of them
RECURSIVE EndOfReferences(_, _, _)
EndOfReferences(graph, d, k) ==
    IF k = 0 \/ RefersTo(graph, d) = 0 THEN d
    ELSE EndOfReferences(graph, RefersTo(graph, d), k - 1)

\* a name of no characters
NameIsEmpty(name) == \A i \in DOMAIN name : name[i] = ""

SymbolCallReturned ==
    call # None /\ Unwrap(call).fn = "entry_symbol" /\ pc = "returned"

\* the cascade without the last part of C16: what entry_symbol returns is
\* decided by the DIE the references end at
CascadeOrder ==
    SymbolCallReturned =>
        LET graph == Unwrap(call).graph
            last == graph[EndOfReferences(graph, 1, Cardinality(NameDies))]
        IN  /\ TakenAttr(last) = "linkage_name"
                  => Unwrap(ret) = Ok(<<Unwrap(last.linkage)>>)
            /\ TakenAttr(last) = "name"
                  => Unwrap(ret) = Ok(<<Unwrap(last.name)>>)
            /\ TakenAttr(last) = "none"
                  => Unwrap(ret) = Err("AddrSymbolMissing", Unwrap(call).addr)

\* C16: the name is the string of the first of DW_AT_linkage_name,
\* DW_AT_abstract_origin, DW_AT_name the DIE carries, a reference being
\* followed to the DIE it refers to and the cascade run again there; a DIE
\* with none of the three gives the error AddrSymbolMissing(addr); and the
\* name of every symbol made from the result, demangled, is not empty.
C16_CascadeGivesNonEmptyName ==
    /\ CascadeOrder
    /\ SymbolCallReturned =>
          (Unwrap(ret).ok => ~NameIsEmpty(demangle(Unwrap(ret).val)))

====
